---- MODULE Spec2Model ----
(***************************************************************************)
(* A model of src/app.js: an Express application exposing CRUD operations  *)
(* on the "products" collection of a MongoDB database.                     *)
(*                                                                         *)
(* JavaScript values are tagged records [t, s, n] (type tag, text, integer *)
(* value), so that Number(), truthiness and strict equality are computed   *)
(* the way the language computes them.  Texts are TLA+ strings and are     *)
(* scanned character by character (Len, SubSeq).                           *)
(*                                                                         *)
(* The MongoDB driver is modelled by its documented behaviour for the API  *)
(* the code is written against: findOneAndUpdate resolves to a result      *)
(* wrapper {value}, ObjectId.isValid accepts 24 hex characters or any 12   *)
(* characters, an inclusion projection keeps _id.  The store itself is     *)
(* reliable: every operation issued is applied atomically and answered.    *)
(*                                                                         *)
(* Every handler is two steps: the middleware chain and the handler up to  *)
(* its answer or its single await, then the completion of the awaited      *)
(* store operation with the answer that follows it.  Spec serves every     *)
(* operation on every identifier; the other specifications are the same    *)
(* program under narrower sets of requests.                                *)
(***************************************************************************)
EXTENDS Integers, Sequences, FiniteSets, Bags, TLC

\* ------------------------------------------------------------------ bounds
\* The largest number of documents ever inserted (ids are never reused).
MaxProducts == 2
\* The largest number of requests suspended on a store operation at once.
MaxInFlight == 2

\* ------------------------------------------------------- JavaScript values
Undefined == [t |-> "undefined", s |-> "", n |-> 0]
Null == [t |-> "null", s |-> "", n |-> 0]
Str(x) == [t |-> "string", s |-> x, n |-> 0]
Num(k) == [t |-> "number", s |-> "finite", n |-> k]
Infinity == [t |-> "number", s |-> "Infinity", n |-> 0]
NegInfinity == [t |-> "number", s |-> "-Infinity", n |-> 0]
NaN == [t |-> "number", s |-> "NaN", n |-> 0]
Bool(b) == [t |-> "boolean", s |-> IF b THEN "true" ELSE "false", n |-> 0]
\* An ObjectId value; n = 0 is an id the store never assigned.
Oid(k) == [t |-> "objectid", s |-> "", n |-> k]

\* ToBoolean: the test of `if (x)` and `!x`.  A document (an object, which
\* has no type tag) is truthy.
Truthy(v) ==
  CASE "t" \notin DOMAIN v -> TRUE
    [] v.t = "undefined" -> FALSE
    [] v.t = "null" -> FALSE
    [] v.t = "boolean" -> v.s = "true"
    [] v.t = "string" -> v.s # ""
    [] v.t = "number" -> IF v.s = "finite" THEN v.n # 0 ELSE v.s # "NaN"
    [] OTHER -> TRUE

Char(str, i) == SubSeq(str, i, i)

IsSpace(c) == c \in {" ", "\t"}

Digits == <<"0", "1", "2", "3", "4", "5", "6", "7", "8", "9">>

IsDigit(c) == \E d \in 1..10 : Digits[d] = c

DigitVal(c) == (CHOOSE d \in 1..10 : Digits[d] = c) - 1

RECURSIVE TrimStart(_)
TrimStart(str) ==
  IF Len(str) > 0 /\ IsSpace(Char(str, 1))
  THEN TrimStart(SubSeq(str, 2, Len(str)))
  ELSE str

RECURSIVE TrimEnd(_)
TrimEnd(str) ==
  IF Len(str) > 0 /\ IsSpace(Char(str, Len(str)))
  THEN TrimEnd(SubSeq(str, 1, Len(str) - 1))
  ELSE str

\* String.prototype.trim
Trim(str) == TrimEnd(TrimStart(str))

RECURSIVE AllDigits(_)
AllDigits(str) ==
  Len(str) = 0 \/ (IsDigit(Char(str, 1)) /\ AllDigits(SubSeq(str, 2, Len(str))))

RECURSIVE DigitsValue(_, _)
DigitsValue(str, acc) ==
  IF Len(str) = 0 THEN acc
  ELSE DigitsValue(SubSeq(str, 2, Len(str)), 10 * acc + DigitVal(Char(str, 1)))

\* StringToNumber for the integer literals, the infinities and everything
\* that is no numeric literal (decimal points, exponents and radix prefixes
\* are not among the inputs of the model).
StringToNumber(str) ==
  LET w == Trim(str)
      sign == IF Len(w) > 0 /\ Char(w, 1) \in {"+", "-"} THEN Char(w, 1) ELSE ""
      u == IF sign = "" THEN w ELSE SubSeq(w, 2, Len(w))
  IN  IF w = "" THEN Num(0)
      ELSE IF u = "Infinity" THEN (IF sign = "-" THEN NegInfinity ELSE Infinity)
      ELSE IF Len(u) > 0 /\ AllDigits(u)
           THEN Num(IF sign = "-" THEN 0 - DigitsValue(u, 0) ELSE DigitsValue(u, 0))
      ELSE NaN

\* Number(v): ToNumber
Number(v) ==
  CASE v.t = "undefined" -> NaN
    [] v.t = "null" -> Num(0)
    [] v.t = "boolean" -> IF v.s = "true" THEN Num(1) ELSE Num(0)
    [] v.t = "number" -> v
    [] v.t = "string" -> StringToNumber(v.s)
    [] OTHER -> NaN

NumberIsNaN(v) == v.t = "number" /\ v.s = "NaN"

\* a <= b on numbers that are not NaN
NumLeq(a, b) ==
  CASE a.s = "-Infinity" -> TRUE
    [] b.s = "Infinity" -> TRUE
    [] a.s = "Infinity" -> FALSE
    [] b.s = "-Infinity" -> FALSE
    [] OTHER -> a.n <= b.n

\* JSON.stringify of a value inside a response body: a number that is not
\* finite is written as null.
ToJSON(v) == IF v.t = "number" /\ v.s # "finite" THEN Null ELSE v

\* ---------------------------------------------------------- MongoDB driver
HexChars == {"0", "1", "2", "3", "4", "5", "6", "7", "8", "9",
             "a", "b", "c", "d", "e", "f", "A", "B", "C", "D", "E", "F"}

RECURSIVE AllHex(_)
AllHex(str) ==
  Len(str) = 0 \/ (Char(str, 1) \in HexChars /\ AllHex(SubSeq(str, 2, Len(str))))

\* ObjectId.isValid on a text: 24 hexadecimal characters, or any 12 characters.
ObjectIdIsValid(id) == Len(id) = 12 \/ (Len(id) = 24 /\ AllHex(id))

\* The hexadecimal text of the k-th identifier the driver generates.
OidHex(k) == "00000000000000000000000" \o Digits[k + 1]

\* new ObjectId(id), for a text ObjectId.isValid accepts: the identifier it
\* denotes; every text other than those of generated identifiers denotes an
\* identifier no document has.
NewObjectId(id) ==
  IF \E k \in 1..MaxProducts : OidHex(k) = id
  THEN Oid(CHOOSE k \in 1..MaxProducts : OidHex(k) = id)
  ELSE Oid(0)

DocFields == {"_id", "name", "price", "category"}

MakeDoc(id, name, price, category) ==
  [_id |-> id, name |-> name, price |-> price, category |-> category]

\* A filter {category, price: {$gte}}; Undefined where the key is absent.
NoFilter == [category |-> Undefined, gte |-> Undefined]

\* Options {sort: {price: dir}, projection}; dir = 0 and has = FALSE where absent.
NoOptions == [sort |-> 0, has |-> FALSE, projection |-> {}]

Matches(doc, filter) ==
  /\ filter.category.t = "undefined" \/ doc["category"] = filter.category
  /\ \/ filter.gte.t = "undefined"
     \/ doc["price"].t = "number" /\ doc["price"].s # "NaN" /\ NumLeq(filter.gte, doc["price"])

RECURSIVE SelectDocs(_, _)
SelectDocs(docs, filter) ==
  IF docs = <<>> THEN <<>>
  ELSE (IF Matches(Head(docs), filter) THEN <<Head(docs)>> ELSE <<>>)
       \o SelectDocs(Tail(docs), filter)

\* d goes before e under sort {price: dir}
Before(d, e, dir) ==
  IF dir = 1 THEN NumLeq(d["price"], e["price"]) ELSE NumLeq(e["price"], d["price"])

RECURSIVE InsertSorted(_, _, _)
InsertSorted(d, docs, dir) ==
  IF docs = <<>> THEN <<d>>
  ELSE IF Before(Head(docs), d, dir)
       THEN <<Head(docs)>> \o InsertSorted(d, Tail(docs), dir)
       ELSE <<d>> \o docs

\* The documents ordered by price; documents of equal price keep their order.
RECURSIVE SortDocs(_, _)
SortDocs(docs, dir) ==
  IF dir = 0 \/ docs = <<>> THEN docs
  ELSE InsertSorted(docs[Len(docs)], SortDocs(SubSeq(docs, 1, Len(docs) - 1), dir), dir)

\* An inclusion projection keeps _id and the named fields the document has;
\* an empty projection object keeps the whole document.
Project(doc, options) ==
  IF ~options.has \/ options.projection = {} THEN doc
  ELSE [k \in (DOMAIN doc) \cap (options.projection \cup {"_id"}) |-> doc[k]]

\* collection.find(filter, options).toArray()
Find(docs, filter, options) ==
  LET sel == SortDocs(SelectDocs(docs, filter), options.sort)
  IN  [i \in 1..Len(sel) |-> Project(sel[i], options)]

HasId(docs, id) == \E i \in 1..Len(docs) : docs[i]["_id"] = id

IndexOf(docs, id) == CHOOSE i \in 1..Len(docs) : docs[i]["_id"] = id

\* collection.findOne({_id}): the document, or Null
FindOne(docs, id) == IF HasId(docs, id) THEN docs[IndexOf(docs, id)] ELSE Null

\* The documents after insertOne(doc)
InsertOne(docs, doc) == Append(docs, doc)

\* $set: the document with the update's fields set
ApplySet(doc, update) ==
  [k \in (DOMAIN doc) \cup (DOMAIN update) |->
     IF k \in DOMAIN update THEN update[k] ELSE doc[k]]

\* The documents after findOneAndUpdate({_id}, {$set: update})
UpdateOne(docs, id, update) ==
  [i \in 1..Len(docs) |->
     IF docs[i]["_id"] = id THEN ApplySet(docs[i], update) ELSE docs[i]]

\* The result wrapper of findOneAndUpdate with returnDocument: "after"
FindOneAndUpdateResult(docs, id, update) ==
  [value |-> FindOne(UpdateOne(docs, id, update), id)]

\* The documents after deleteOne({_id})
RECURSIVE DeleteOne(_, _)
DeleteOne(docs, id) ==
  IF docs = <<>> THEN <<>>
  ELSE IF Head(docs)["_id"] = id THEN Tail(docs)
       ELSE <<Head(docs)>> \o DeleteOne(Tail(docs), id)

\* Mutant: the acknowledgement is counted, not the documents deleted.
DeletedCountAcknowledged(docs, id) == 1

\* deleteOne's result.deletedCount
DeletedCount(docs, id) == IF HasId(docs, id) THEN 1 ELSE 0

\* ------------------------------------------------------ requests, responses
EmptyBody == [name |-> Undefined, price |-> Undefined, category |-> Undefined]

EmptyQuery ==
  [category |-> Undefined, minPrice |-> Undefined, sort |-> Undefined, fields |-> Undefined]

\* A request: its method, its path ("/", "/api/products", "/api/products/:id"
\* with the text standing for :id, or another path), the state of its body
\* ("none", "object": JSON text of an object, "malformed": JSON text that
\* does not parse), the object's name, price and category, and its query.
Req(method, path, id, raw, body, query) ==
  [method |-> method, path |-> path, id |-> id, raw |-> raw, body |-> body, query |-> query]

NoReq == Req("", "", "", "none", EmptyBody, EmptyQuery)

\* res.status(status).json(body)
Respond(status, body) == [status |-> status, body |-> body]

ErrorBody(msg) == [error |-> Str(msg)]

NotReadyMessage == "Database not ready yet. Try again in a moment."

\* express.json(): the body of a request without one is {}; a JSON text
\* that does not parse makes the parser pass an error on.
JsonFails(req) == req.raw = "malformed"

JsonBody(req) == IF req.raw = "object" THEN req.body ELSE EmptyBody

\* The error express.json() passes on skips every later middleware and
\* route; the default error handler answers with the error's status.
ParseErrorResponse == Respond(400, [error |-> Str("SyntaxError")])

\* The route a request is dispatched to, "" when none matches.
Route(req) ==
  CASE req.method = "GET" /\ req.path = "/" -> "root"
    [] req.method = "GET" /\ req.path = "/api/products" -> "list"
    [] req.method = "GET" /\ req.path = "/api/products/:id" -> "get"
    [] req.method = "POST" /\ req.path = "/api/products" -> "create"
    [] req.method = "PUT" /\ req.path = "/api/products/:id" -> "update"
    [] req.method = "DELETE" /\ req.path = "/api/products/:id" -> "delete"
    [] OTHER -> ""

\* ----------------------------------------------- GET /api/products (query)
\* String.prototype.split(","): the pieces between the commas
RECURSIVE SplitComma(_, _)
SplitComma(str, piece) ==
  IF Len(str) = 0 THEN <<piece>>
  ELSE IF Char(str, 1) = ","
       THEN <<piece>> \o SplitComma(SubSeq(str, 2, Len(str)), "")
       ELSE SplitComma(SubSeq(str, 2, Len(str)), piece \o Char(str, 1))

\* fields.split(",").map(s => s.trim()).filter(Boolean): the projection's keys
ProjectionKeys(fields) ==
  LET pieces == SplitComma(fields, "")
  IN  {Trim(pieces[i]) : i \in 1..Len(pieces)} \ {""}

\* if (minPrice !== undefined) ... Number.isNaN(mp)
MinPriceRejected(minPrice) == minPrice # Undefined /\ NumberIsNaN(Number(minPrice))

\* if (sort) ... else return 400
SortRejected(sort) == Truthy(sort) /\ sort # Str("price") /\ sort # Str("-price")

ListInvalid(query) == MinPriceRejected(query.minPrice) \/ SortRejected(query.sort)

ListError(query) ==
  IF MinPriceRejected(query.minPrice)
  THEN Respond(400, ErrorBody("minPrice must be a number"))
  ELSE Respond(400, ErrorBody("sort must be \"price\" or \"-price\""))

ListFilter(query) ==
  [category |-> IF Truthy(query.category) THEN query.category ELSE Undefined,
   gte |-> IF query.minPrice # Undefined THEN Number(query.minPrice) ELSE Undefined]

ListOptions(query) ==
  [sort |-> IF query.sort = Str("price") THEN 1
            ELSE IF query.sort = Str("-price") THEN 0 - 1 ELSE 0,
   has |-> Truthy(query.fields),
   projection |-> IF Truthy(query.fields) THEN ProjectionKeys(query.fields.s) ELSE {}]

ListResponse(docs, query) ==
  LET products == Find(docs, ListFilter(query), ListOptions(query))
  IN  Respond(200, [count |-> Num(Len(products)), products |-> products])

\* ------------------------------------------------- GET /api/products/:id
IdRejected(id) == ~ObjectIdIsValid(id)

InvalidId == Respond(400, ErrorBody("Invalid id"))

NotFound == Respond(404, ErrorBody("Not found"))

GetResponse(product) ==
  IF ~Truthy(product) THEN NotFound
  ELSE Respond(200, [k \in DOMAIN product |-> ToJSON(product[k])])

\* --------------------------------------------------- POST /api/products
CreateMissing(body) ==
  ~Truthy(body.name) \/ body.price = Undefined \/ ~Truthy(body.category)

PriceRejected(price) == NumberIsNaN(Number(price))

CreateInvalid(body) == CreateMissing(body) \/ PriceRejected(body.price)

CreateError(body) ==
  IF CreateMissing(body)
  THEN Respond(400, ErrorBody("Missing required fields: name, price, category"))
  ELSE Respond(400, ErrorBody("price must be a number"))

\* Mutant: the price is inserted as submitted, not as the number p.
CreateDocRaw(id, body) == MakeDoc(id, body.name, body.price, body.category)

\* { name, price: p, category }, to which the driver adds the generated _id
CreateDoc(id, body) == MakeDoc(id, body.name, Number(body.price), body.category)

CreateResponse(insertedId) ==
  Respond(201, [message |-> Str("Product created"), id |-> insertedId])

\* ------------------------------------------------ PUT /api/products/:id
UpdateEmpty(body) ==
  body.name = Undefined /\ body.price = Undefined /\ body.category = Undefined

UpdateInvalid(id, body) ==
  \/ IdRejected(id)
  \/ UpdateEmpty(body)
  \/ (body.price # Undefined /\ PriceRejected(body.price))

UpdateError(id, body) ==
  IF IdRejected(id) THEN InvalidId
  ELSE IF UpdateEmpty(body)
       THEN Respond(400, ErrorBody("Provide at least one field: name, price, category"))
       ELSE Respond(400, ErrorBody("price must be a number"))

\* Mutant: every field is put in the update object, supplied or not.
UpdateSetAll(body) ==
  [k \in {"name", "category", "price"} |->
     IF k = "price" /\ body.price # Undefined THEN Number(body.price) ELSE body[k]]

\* The update object: the supplied fields, price as a number
UpdateSet(body) ==
  LET keys == {k \in {"name", "category", "price"} : body[k] # Undefined}
  IN  [k \in keys |-> IF k = "price" THEN Number(body.price) ELSE body[k]]

\* Mutant: the result wrapper is tested, not the document in it.
UpdateResponseWrapper(result) ==
  IF ~Truthy([value |-> result.value]) THEN NotFound
  ELSE Respond(200, [message |-> Str("Product updated"), product |-> result.value])

UpdateResponse(result) ==
  IF ~Truthy(result.value) THEN NotFound
  ELSE Respond(200, [message |-> Str("Product updated"),
                     product |-> [k \in DOMAIN result.value |-> ToJSON(result.value[k])]])

\* --------------------------------------------- DELETE /api/products/:id
\* Mutant: a delete that finds nothing is answered as an invalid request.
DeleteResponseInvalid(deletedCount) ==
  IF deletedCount = 0 THEN InvalidId
  ELSE Respond(200, [message |-> Str("Product deleted")])

DeleteResponse(deletedCount) ==
  IF deletedCount = 0 THEN NotFound
  ELSE Respond(200, [message |-> Str("Product deleted")])

\* -------------------------------------------------------------- the state
VARIABLES
  process,             \* "running", or "exited" after process.exit(1)
  productsCollection,  \* TRUE once the collection handle is assigned
  collection,          \* the documents of the collection, in insertion order
  generated,           \* how many identifiers the driver has generated
  inflight,            \* the requests whose handler awaits the store (a bag)
  last,                \* the response sent last, with its request
  submitted,           \* history: per generated id, the body it was created from
  okDeletes            \* history: per generated id, the DELETEs answered 200

vars ==
  <<process, productsCollection, collection, generated, inflight, last, submitted, okDeletes>>

\* A response as the client sees it: the request, the response, whether the
\* handle was set when the request arrived, the route handler that ran ("" when
\* none did) and whether a store operation was issued for the request.
Sent(req, resp, ready, handler, stored) ==
  [req |-> req, resp |-> resp, ready |-> ready, handler |-> handler, stored |-> stored]

NoBody == [name |-> Null, price |-> Null, category |-> Null]

Init ==
  /\ process = "running"
  /\ productsCollection = FALSE
  /\ collection = <<>>
  /\ generated = 0
  /\ inflight = EmptyBag
  /\ last = Sent(NoReq, Respond(0, ErrorBody("")), FALSE, "", FALSE)
  /\ submitted = [k \in 1..MaxProducts |-> NoBody]
  /\ okDeletes = [k \in 1..MaxProducts |-> 0]

\* ------------------------------------------------------ MongoClient.connect
Connect ==
  /\ process = "running"
  /\ ~productsCollection
  /\ productsCollection' = TRUE
  /\ UNCHANGED <<process, collection, generated, inflight, last, submitted, okDeletes>>

ConnectError ==
  /\ process = "running"
  /\ ~productsCollection
  /\ process' = "exited"
  /\ UNCHANGED <<productsCollection, collection, generated, inflight, last, submitted, okDeletes>>

\* --------------------------------------------------------- middleware chain
\* The response is sent without the store: nothing but `last` changes.
Answer(req, resp, handler) ==
  /\ last' = Sent(req, resp, productsCollection, handler, FALSE)
  /\ UNCHANGED <<process, productsCollection, collection, generated, inflight,
                 submitted, okDeletes>>

\* The handler issues its store operation and awaits it.
Await(req) ==
  /\ BagCardinality(inflight) < MaxInFlight
  /\ inflight' = inflight (+) SetToBag({req})
  /\ UNCHANGED <<process, productsCollection, collection, generated, last,
                 submitted, okDeletes>>

\* The awaited store operation completes and the handler answers.
Resume(req, resp, docs) ==
  /\ inflight' = inflight (-) SetToBag({req})
  /\ collection' = docs
  /\ last' = Sent(req, resp, TRUE, Route(req), TRUE)
  /\ UNCHANGED <<process, productsCollection>>

\* The request passed the logger, express.json() and the readiness gate and
\* is dispatched to `route`.
Dispatched(req, route) ==
  /\ process = "running"
  /\ ~JsonFails(req)
  /\ productsCollection
  /\ Route(req) = route

Awaiting(req, route) ==
  /\ process = "running"
  /\ BagIn(req, inflight)
  /\ Route(req) = route

\* express.json() fails: no later middleware runs
BodyParseError(req) ==
  /\ process = "running"
  /\ JsonFails(req)
  /\ Answer(req, ParseErrorResponse, "")

\* The readiness gate
NotReady(req) ==
  /\ process = "running"
  /\ ~JsonFails(req)
  /\ ~productsCollection
  /\ Answer(req, Respond(503, ErrorBody(NotReadyMessage)), "")

GetRoot(req) ==
  /\ Dispatched(req, "root")
  /\ Answer(req, Respond(200, [links |-> <<Str("/api/products"), Str("/api/products/:id")>>]),
            "root")

EndpointNotFound(req) ==
  /\ Dispatched(req, "")
  /\ Answer(req, Respond(404, ErrorBody("API endpoint not found")), "")

\* ------------------------------------------------------------ GET /api/products
GetProducts(req) ==
  /\ Dispatched(req, "list")
  /\ IF ListInvalid(req.query)
     THEN Answer(req, ListError(req.query), "list")
     ELSE Await(req)

GetProductsDone(req) ==
  /\ Awaiting(req, "list")
  /\ Resume(req, ListResponse(collection, req.query), collection)
  /\ UNCHANGED <<generated, submitted, okDeletes>>

\* -------------------------------------------------------- GET /api/products/:id
GetProduct(req) ==
  /\ Dispatched(req, "get")
  /\ IF IdRejected(req.id)
     THEN Answer(req, InvalidId, "get")
     ELSE Await(req)

GetProductDone(req) ==
  /\ Awaiting(req, "get")
  /\ Resume(req, GetResponse(FindOne(collection, NewObjectId(req.id))), collection)
  /\ UNCHANGED <<generated, submitted, okDeletes>>

\* ----------------------------------------------------------- POST /api/products
PendingCreates ==
  LET reqs == {r \in BagToSet(inflight) : Route(r) = "create"}
  IN  BagCardinality([r \in reqs |-> inflight[r]])

PostProduct(req) ==
  /\ Dispatched(req, "create")
  /\ IF CreateInvalid(JsonBody(req))
     THEN Answer(req, CreateError(JsonBody(req)), "create")
     ELSE generated + PendingCreates < MaxProducts /\ Await(req)

PostProductDone(req) ==
  /\ Awaiting(req, "create")
  /\ generated' = generated + 1
  /\ Resume(req, CreateResponse(Oid(generated')),
            InsertOne(collection, CreateDoc(Oid(generated'), JsonBody(req))))
  /\ submitted' = [submitted EXCEPT ![generated'] = JsonBody(req)]
  /\ UNCHANGED okDeletes

\* -------------------------------------------------------- PUT /api/products/:id
PutProduct(req) ==
  /\ Dispatched(req, "update")
  /\ IF UpdateInvalid(req.id, JsonBody(req))
     THEN Answer(req, UpdateError(req.id, JsonBody(req)), "update")
     ELSE Await(req)

PutProductDone(req) ==
  LET id == NewObjectId(req.id)
      update == UpdateSet(JsonBody(req))
  IN  /\ Awaiting(req, "update")
      /\ Resume(req, UpdateResponse(FindOneAndUpdateResult(collection, id, update)),
                UpdateOne(collection, id, update))
      /\ submitted' = IF HasId(collection, id)
                      THEN [submitted EXCEPT ![id.n] = NoBody] ELSE submitted
      /\ UNCHANGED <<generated, okDeletes>>

\* ----------------------------------------------------- DELETE /api/products/:id
DeleteProduct(req) ==
  /\ Dispatched(req, "delete")
  /\ IF IdRejected(req.id)
     THEN Answer(req, InvalidId, "delete")
     ELSE Await(req)

DeleteProductDone(req) ==
  LET id == NewObjectId(req.id)
      resp == DeleteResponse(DeletedCount(collection, id))
  IN  /\ Awaiting(req, "delete")
      /\ Resume(req, resp, DeleteOne(collection, id))
      /\ submitted' = IF HasId(collection, id)
                      THEN [submitted EXCEPT ![id.n] = NoBody] ELSE submitted
      /\ okDeletes' = IF resp.status = 200 /\ id.n \in 1..MaxProducts
                      THEN [okDeletes EXCEPT ![id.n] = @ + 1] ELSE okDeletes
      /\ UNCHANGED generated

\* ------------------------------------------------------------- the inputs
\* The texts a client puts for :id: those of the generated identifiers, a
\* text that is no identifier, and 12 characters (an identifier no document
\* has).
PathIds == {OidHex(k) : k \in 1..MaxProducts}

BadId == "not-an-id"

UnknownId == "abcdefghijkl"

Body(name, price, category) == [name |-> name, price |-> price, category |-> category]

\* A PUT and a POST carry their body as JSON text ({} when it has no field);
\* a GET and a DELETE carry none.
ById(method, id, body) ==
  Req(method, "/api/products/:id", id, IF method = "PUT" THEN "object" ELSE "none",
      body, EmptyQuery)

Post(body) == Req("POST", "/api/products", "", "object", body, EmptyQuery)

List(query) == Req("GET", "/api/products", "", "none", EmptyBody, query)

Query(category, minPrice, sort, fields) ==
  [category |-> category, minPrice |-> minPrice, sort |-> sort, fields |-> fields]

\* A body that is no JSON, the index, and a path no route matches.
OtherRequests ==
  {Req("POST", "/api/products", "", "malformed", EmptyBody, EmptyQuery),
   Req("GET", "/", "", "none", EmptyBody, EmptyQuery),
   Req("PATCH", "/api/products", "", "none", EmptyBody, EmptyQuery)}

\* Bodies of POST: none, a product, a product whose price is numeric text,
\* a price that is no number.
CreateBodies ==
  {EmptyBody,
   Body(Str("a"), Num(10), Str("x")),
   Body(Str("a"), Str("-5"), Str("y")),
   Body(Str("a"), Str("abc"), Str("x"))}

\* Bodies of PUT: none, one field, two fields (an empty name, a price that is
\* numeric text), a price that is no number.
UpdateBodies ==
  {EmptyBody,
   Body(Undefined, Undefined, Str("y")),
   Body(Str(""), Str("12"), Undefined),
   Body(Undefined, Str("abc"), Undefined)}

\* Every operation, on every identifier.
CrudRequests ==
  OtherRequests
  \cup {ById(m, id, EmptyBody) : m \in {"GET", "DELETE"}, id \in PathIds \cup {BadId}}
  \cup {ById("GET", UnknownId, EmptyBody)}
  \cup {ById("PUT", id, b) : id \in PathIds, b \in UpdateBodies}
  \cup {ById("PUT", BadId, Body(Undefined, Undefined, Str("y")))}
  \cup {Post(b) : b \in CreateBodies}
  \cup {List(EmptyQuery),
        List(Query(Undefined, Str("abc"), Undefined, Undefined)),
        List(Query(Undefined, Undefined, Str("foo"), Undefined))}

\* Every way a request fails validation, and requests that change the first
\* product.
ValidationRequests ==
  OtherRequests
  \cup {ById(m, id, EmptyBody) : m \in {"GET", "DELETE"}, id \in {OidHex(1), BadId}}
  \cup {ById("PUT", OidHex(1), b) : b \in UpdateBodies}
  \cup {ById("PUT", BadId, Body(Undefined, Undefined, Str("y")))}
  \cup {Post(b) : b \in CreateBodies \cup {Body(Str(""), Num(10), Str("x")),
                                            Body(Str("a"), Num(10), Undefined)}}
  \cup {List(EmptyQuery),
        List(Query(Undefined, Str("abc"), Undefined, Undefined)),
        List(Query(Undefined, Undefined, Str("foo"), Undefined))}

\* Creations with a price given as a number, as numeric text and as the text
\* of an infinite value; reads of every product; an update and a delete of
\* the first.
RoundTripRequests ==
  OtherRequests
  \cup {Post(Body(Str("a"), Num(10), Str("x"))),
        Post(Body(Str("a"), Str("-5"), Str("y"))),
        Post(Body(Str("b"), Str("Infinity"), Str("x")))}
  \cup {ById("GET", id, EmptyBody) : id \in PathIds}
  \cup {ById("PUT", OidHex(1), Body(Undefined, Undefined, Str("z"))),
        ById("DELETE", OidHex(1), EmptyBody),
        List(EmptyQuery)}

\* Updates of every product by one field, of the first by two fields.
UpdateRequests ==
  OtherRequests
  \cup {Post(Body(Str("a"), Num(10), Str("x")))}
  \cup {ById("PUT", id, Body(Undefined, Undefined, Str("y"))) : id \in PathIds}
  \cup {ById("PUT", OidHex(1), Body(Str(""), Str("12"), Undefined)),
        ById("PUT", OidHex(1), Body(Undefined, Str("abc"), Undefined)),
        ById("GET", OidHex(1), EmptyBody),
        ById("DELETE", OidHex(1), EmptyBody),
        List(EmptyQuery)}

\* Reads, updates and deletes of the first product's identifier and of an
\* identifier no document has; updates whose body fails validation.
NotFoundRequests ==
  OtherRequests
  \cup {Post(Body(Str("a"), Num(10), Str("x")))}
  \cup {ById(m, id, EmptyBody) : m \in {"GET", "DELETE"}, id \in {OidHex(1), UnknownId}}
  \cup {ById("PUT", id, b) : id \in {OidHex(1), UnknownId},
                             b \in {Body(Undefined, Undefined, Str("x")), EmptyBody}}
  \cup {ById("PUT", OidHex(1), Body(Undefined, Str("abc"), Undefined)),
        List(EmptyQuery)}

\* Deletes of every product.
DeleteRequests ==
  OtherRequests
  \cup {Post(Body(Str("a"), Num(10), Str("x")))}
  \cup {ById("DELETE", id, EmptyBody) : id \in PathIds \cup {BadId}}
  \cup {ById("GET", OidHex(1), EmptyBody),
        ById("PUT", OidHex(1), Body(Undefined, Undefined, Str("x"))),
        List(EmptyQuery)}

\* Listings under every query parameter, well formed and not, over products
\* of three prices.
ListQueries ==
  {EmptyQuery,
   Query(Str("x"), Undefined, Undefined, Undefined),
   Query(Str("x"), Str("10"), Str("-price"), Str("name,price"))}
  \cup {Query(Undefined, m, Undefined, Undefined) :
          m \in {Str("10"), Str("abc"), Str(""), Str("Infinity")}}
  \cup {Query(Undefined, Undefined, s, Undefined) :
          s \in {Str("price"), Str("-price"), Str("foo"), Str("")}}
  \cup {Query(Undefined, Undefined, Undefined, f) :
          f \in {Str("name,price"), Str(" name , ,price"), Str(",")}}

ListRequests ==
  OtherRequests
  \cup {List(q) : q \in ListQueries}
  \cup {Post(Body(Str("a"), Num(10), Str("x"))),
        Post(Body(Str("b"), Num(5), Str("y"))),
        Post(Body(Str("c"), Str("15"), Str("x"))),
        ById("GET", OidHex(1), EmptyBody),
        ById("PUT", OidHex(1), Body(Undefined, Null, Undefined)),
        ById("DELETE", OidHex(1), EmptyBody)}

\* ---------------------------------------------------------- specifications
\* A request arrives and runs through the middleware chain to its handler's
\* answer or first await.
Arrive(req) ==
  \/ BodyParseError(req)
  \/ NotReady(req)
  \/ GetRoot(req)
  \/ EndpointNotFound(req)
  \/ GetProducts(req)
  \/ GetProduct(req)
  \/ PostProduct(req)
  \/ PutProduct(req)
  \/ DeleteProduct(req)

\* The store operation a handler awaits completes.
Complete(req) ==
  \/ GetProductsDone(req)
  \/ GetProductDone(req)
  \/ PostProductDone(req)
  \/ PutProductDone(req)
  \/ DeleteProductDone(req)

\* The program serving clients that send the requests of `requests`.
Serve(requests) ==
  \/ Connect
  \/ ConnectError
  \/ \E req \in requests : Arrive(req) \/ Complete(req)

Next == Serve(CrudRequests)

Spec == Init /\ [][Next]_vars

ValidationNext == Serve(ValidationRequests)

ValidationSpec == Init /\ [][ValidationNext]_vars

RoundTripNext == Serve(RoundTripRequests)

RoundTripSpec == Init /\ [][RoundTripNext]_vars

UpdateNext == Serve(UpdateRequests)

UpdateSpec == Init /\ [][UpdateNext]_vars

NotFoundNext == Serve(NotFoundRequests)

NotFoundSpec == Init /\ [][NotFoundNext]_vars

DeleteNext == Serve(DeleteRequests)

DeleteSpec == Init /\ [][DeleteNext]_vars

ListNext == Serve(ListRequests)

ListSpec == Init /\ [][ListNext]_vars

\* ------------------------------------------------------------ the claims
\* A request is answered in this step.
Answered ==
  last' # last \/ BagCardinality(inflight') < BagCardinality(inflight)

\* The awaited store operation of a request to `route` completes in this step.
Completes(route) ==
  BagCardinality(inflight') < BagCardinality(inflight) /\ last'.handler = route

\* The identifier a request names
Target(req) == NewObjectId(req.id)

IsText(v) == v.t = "string" /\ v.s # ""

NotFoundAnswer == [status |-> 404, body |-> [error |-> Str("Not found")]]

\* C1 (as claimed): every request that arrives while the store handle is unset
\* is answered 503 with the "not ready" body, and no route handler runs for it.
C1_GateAnswers503 ==
  (last.req # NoReq /\ ~last.ready) =>
    /\ last.resp = [status |-> 503, body |-> [error |-> Str(NotReadyMessage)]]
    /\ last.handler = ""

\* C2: a request answered 400 issued no store operation, and the step that
\* answers 400 leaves the collection as it was.
C2_ValidationPrecedesStore ==
  /\ [](last.resp.status = 400 => ~last.stored)
  /\ [][(Answered /\ last'.resp.status = 400) => collection' = collection]_vars

\* A PUT with a price that is no number was answered 400 while the collection
\* holds a document.
C2_Witness ==
  /\ last.resp.status = 400
  /\ last.handler = "update"
  /\ last.req.body.price = Str("abc")
  /\ collection # <<>>

\* C3 (as claimed): every persisted product has a non-empty text name, a
\* non-empty text category and a price that is a non-negative number.
C3_ProductInvariant ==
  \A i \in 1..Len(collection) :
    /\ IsText(collection[i]["name"])
    /\ IsText(collection[i]["category"])
    /\ collection[i]["price"].t = "number"
    /\ collection[i]["price"].s = "finite"
    /\ collection[i]["price"].n >= 0

\* The last answer is that of a GET of a product that no update or delete
\* has touched since its creation.
GetOfUntouched ==
  /\ last.handler = "get"
  /\ last.stored
  /\ Target(last.req).n \in 1..generated
  /\ submitted[Target(last.req).n] # NoBody

\* C4 (as claimed): a GET of a created product that nothing has touched
\* answers 200 with exactly the name, price and category submitted.
C4_RoundTripExact ==
  GetOfUntouched =>
    /\ last.resp.status = 200
    /\ last.resp.body["name"] = submitted[Target(last.req).n].name
    /\ last.resp.body["price"] = submitted[Target(last.req).n].price
    /\ last.resp.body["category"] = submitted[Target(last.req).n].category

\* C4 (amended): a GET of a created product that nothing has touched answers
\* 200 with the identifier, exactly the name and category submitted, and the
\* submitted price converted to a number: the submitted value itself when it
\* is a finite number, the number a numeric text denotes otherwise.
C4_RoundTripNumeric ==
  GetOfUntouched =>
    LET sub == submitted[Target(last.req).n]
        got == last.resp.body
    IN  /\ last.resp.status = 200
        /\ got["_id"] = Target(last.req)
        /\ got["name"] = sub.name
        /\ got["category"] = sub.category
        /\ got["price"] = ToJSON(Number(sub.price))
        /\ (sub.price.t = "number" /\ sub.price.s = "finite") => got["price"] = sub.price
        /\ sub.price = Str("-5") => got["price"] = Num(0 - 5)

\* A product created with its price given as text was read back.
C4_Witness ==
  /\ GetOfUntouched
  /\ submitted[Target(last.req).n].price = Str("-5")
  /\ last.resp.status = 200

\* The document a PUT body makes of `doc`: the supplied fields replaced, the
\* price by `price`.
Updated(doc, body, price) ==
  [_id |-> doc["_id"],
   name |-> IF body.name # Undefined THEN body.name ELSE doc["name"],
   price |-> IF body.price # Undefined THEN price ELSE doc["price"],
   category |-> IF body.category # Undefined THEN body.category ELSE doc["category"]]

\* A PUT on an existing product answers 200 {message, product} and replaces
\* the product by Updated(product, body, price), leaving the others alone.
UpdateFrame(price) ==
  (Completes("update") /\ HasId(collection, Target(last'.req))) =>
    /\ last'.resp.status = 200
    /\ DOMAIN last'.resp.body = {"message", "product"}
    /\ Len(collection') = Len(collection)
    /\ \A i \in 1..Len(collection) :
         collection'[i] =
           IF collection[i]["_id"] = Target(last'.req)
           THEN Updated(collection[i], JsonBody(last'.req), price)
           ELSE collection[i]

\* C5 (as claimed): the supplied fields are changed to the supplied values.
C5_UpdateExact == [][UpdateFrame(JsonBody(last'.req).price)]_vars

\* C5 (amended): a PUT on an existing product whose body passes validation
\* answers 200 {message, product}, sets the supplied name and category to the
\* supplied values and the supplied price to the number it converts to,
\* leaves the product's other fields and its id unchanged, and leaves every
\* other product unchanged.
C5_UpdateNumeric == [][UpdateFrame(Number(JsonBody(last'.req).price))]_vars

\* A PUT of two fields was applied to one of two products.
C5_Witness ==
  /\ last.handler = "update"
  /\ last.resp.status = 200
  /\ last.req.body = Body(Str(""), Str("12"), Undefined)
  /\ Len(collection) = 2
  /\ \E i \in 1..2 : /\ collection[i]["_id"] = Target(last.req)
                     /\ collection[i]["name"] = Str("")
                     /\ collection[i]["price"] = Num(12)

\* The request answered in this step is a get, update or delete whose
\* identifier is well formed and names no document.
NamesNoProduct ==
  /\ Answered
  /\ Route(last'.req) \in {"get", "update", "delete"}
  /\ ObjectIdIsValid(last'.req.id)
  /\ ~HasId(collection, Target(last'.req))

Without(docs, id) == SelectSeq(docs, LAMBDA d : d["_id"] # id)

\* C7: a DELETE of an existing product answers 200 and removes exactly that
\* product; a DELETE of an id that names no product answers 404 and changes
\* nothing; so of the DELETEs of one id, in flight together or one after the
\* other, exactly one is answered 200: the first to reach the store.
C7_DeleteOnce ==
  /\ [][Completes("delete") =>
          IF HasId(collection, Target(last'.req))
          THEN /\ last'.resp.status = 200
               /\ collection' = Without(collection, Target(last'.req))
          ELSE /\ last'.resp.status = 404
               /\ collection' = collection]_vars
  /\ [](\A k \in 1..MaxProducts :
          okDeletes[k] = IF k <= generated /\ ~HasId(collection, Oid(k)) THEN 1 ELSE 0)

\* One DELETE of a product was answered 200 while another DELETE of the same
\* id is in flight.
C7_Witness ==
  /\ last.handler = "delete"
  /\ last.resp.status = 200
  /\ CopiesIn(last.req, inflight) = 1
  /\ okDeletes[Target(last.req).n] = 1

\* The last answer is that of a listing the store was asked for.
Listed == last.handler = "list" /\ last.stored

\* C8 (as claimed): a listing with a `fields` parameter returns, for each
\* product, an object whose attribute names are exactly the names listed in
\* `fields` (split on commas, trimmed, empty pieces dropped) that a product has.
C8_FieldsExact ==
  (Listed /\ last.req.query.fields # Undefined) =>
    \A i \in 1..Len(last.resp.body.products) :
      DOMAIN last.resp.body.products[i] =
        ProjectionKeys(last.req.query.fields.s) \cap DocFields

\* A value that parses as a finite number: a finite number, or a text that,
\* trimmed, is the literal of one.
ParsesFinite(v) ==
  \/ v.t = "number" /\ v.s = "finite"
  \/ v.t = "string" /\ Trim(v.s) # "" /\ StringToNumber(v.s).s = "finite"

\* The numeric input of the request a handler answered last: minPrice of a
\* listing, price of a create or of an update; Undefined when not supplied.
NumericInput ==
  CASE last.handler = "list" -> last.req.query.minPrice
    [] last.handler \in {"create", "update"} -> JsonBody(last.req).price
    [] OTHER -> Undefined

\* C9 (as claimed): a request whose numeric input is supplied and does not
\* parse as a finite number is answered 400.
C9_NumericInputsFinite ==
  (NumericInput # Undefined /\ ~ParsesFinite(NumericInput)) => last.resp.status = 400

Sorted(products, dir) ==
  \A i, j \in 1..Len(products) :
    (i < j /\ "price" \in DOMAIN products[i]) =>
      IF dir = 1 THEN NumLeq(products[i]["price"], products[j]["price"])
      ELSE NumLeq(products[j]["price"], products[i]["price"])

\* C10 (as claimed): a listing whose `sort` parameter is present is answered
\* 400 unless the value is "price" or "-price"; answered 200, its products are
\* in non-decreasing, respectively non-increasing, order of price.
C10_SortValidated ==
  (last.handler = "list" /\ last.req.query.sort # Undefined) =>
    IF last.req.query.sort \in {Str("price"), Str("-price")}
    THEN last.resp.status = 200 =>
           Sorted(last.resp.body.products,
                  IF last.req.query.sort = Str("price") THEN 1 ELSE 0 - 1)
    ELSE last.resp.status = 400

====
